---- MODULE Spec2Model ----
(***************************************************************************)
(* Backend selection of auto_gptq/utils/import_utils.py.                   *)
(*                                                                         *)
(* The module probes seven optional extensions when it is imported and     *)
(* keeps the answers in module globals; dynamically_import_QuantLinear     *)
(* then picks one QuantLinear class from its arguments, the globals, the   *)
(* importability of the HPU runtime and torch.cuda.is_available().  The    *)
(* only global it writes is the latch _warned.                             *)
(***************************************************************************)
EXTENDS Integers, FiniteSets, Sequences, TLC

VARIABLES
    caps,      \* the *_AVAILABLE globals, set once by the module's import
    _warned,   \* the global _warned: "unbound", "false" or "true"
    nlog,      \* how many times "No cuda found ..." was logged
    pc,        \* the sequential caller: "idle" or "returned"
    inp,       \* the last call's inputs (arguments and call-time environment)
    use_ipex,  \* the last call's local use_ipex when it left the function
    logged,    \* whether the last call logged the warning
    result,    \* the last call's outcome: a QuantLinear module or an exception
    tpc,       \* concurrent callers: each thread's position in the function
    tinp,      \* concurrent callers: each thread's inputs
    tipex,     \* concurrent callers: each thread's local use_ipex
    tresult    \* concurrent callers: each thread's outcome

vars ==
    <<caps, _warned, nlog, pc, inp, use_ipex, logged, result,
      tpc, tinp, tipex, tresult>>

seqvars == <<pc, inp, use_ipex, logged, result>>

thrvars == <<tpc, tinp, tipex, tresult>>

----------------------------------------------------------------------------
(* Bounds of the model. *)

\* The log counter saturates here (it only has to tell 0, 1 and "more").
MaxLog == 3

\* Number of threads calling the function concurrently in SpecConc.
NumThreads == 2

----------------------------------------------------------------------------
(* Values. *)

\* disable_exllama: Optional[bool] = None
TriState == {"None", "False", "True"}

BitsValues == {4, 8}

GroupSizes == {-1, 128}

\* The QuantLinear classes, named by the module each is imported from.
Handles ==
    {"qlinear_hpu", "qlinear_qigen", "qlinear_tritonv2", "qlinear_triton",
     "qlinear_ipex", "qlinear_marlin", "qlinear_exllamav2", "qlinear_exllama",
     "qlinear_cuda_old", "qlinear_cuda"}

\* The exceptions the function can leave with.
Errors == {"ValueError_QIGen", "ValueError_IPEX", "AssertionError", "NameError"}

\* The module globals set by the seven try/import blocks.
Caps ==
    [TRITON_AVAILABLE : BOOLEAN, AUTOGPTQ_CUDA_AVAILABLE : BOOLEAN,
     EXLLAMA_KERNELS_AVAILABLE : BOOLEAN, EXLLAMAV2_KERNELS_AVAILABLE : BOOLEAN,
     QIGEN_AVAILABLE : BOOLEAN, MARLIN_AVAILABLE : BOOLEAN,
     IPEX_AVAILABLE : BOOLEAN]

\* One call's inputs: the arguments, whether habana_frameworks.torch.hpu
\* imports, and what torch.cuda.is_available() answers.
Inputs ==
    [hpu : BOOLEAN, cuda : BOOLEAN,
     use_triton : BOOLEAN, desc_act : BOOLEAN, group_size : GroupSizes,
     bits : BitsValues, disable_exllama : TriState,
     disable_exllamav2 : BOOLEAN, use_qigen : BOOLEAN, use_marlin : BOOLEAN,
     use_tritonv2 : BOOLEAN, use_ipex : BOOLEAN]

\* The defaults of the signature, for the arguments that have one.
DefaultPreference(a) ==
    /\ a.disable_exllama = "None"
    /\ ~a.disable_exllamav2
    /\ ~a.use_qigen
    /\ ~a.use_marlin
    /\ ~a.use_tritonv2
    /\ ~a.use_ipex

\* inp and result while no call is recorded.
NoInput ==
    [hpu |-> FALSE, cuda |-> FALSE,
     use_triton |-> FALSE, desc_act |-> FALSE, group_size |-> -1,
     bits |-> 4, disable_exllama |-> "None",
     disable_exllamav2 |-> FALSE, use_qigen |-> FALSE, use_marlin |-> FALSE,
     use_tritonv2 |-> FALSE, use_ipex |-> FALSE]

NoResult == "none"

----------------------------------------------------------------------------
(* The function, as the code computes it.                                  *)
(*                                                                         *)
(* Each "from ..nn_modules.qlinear.<module> import QuantLinear" binds the  *)
(* class of that module, and the outcome is named after the module; the    *)
(* import itself is taken to succeed.  The warning of lines 103-106 (a HIP *)
(* build of torch) and the debug line 108 write to the log only, not to    *)
(* the latch or the outcome, and are not the "No cuda found" line that     *)
(* nlog counts.                                                            *)

\* _warned = False is bound only when intel_extension_for_pytorch imported.
InitialWarned(c) == IF c.IPEX_AVAILABLE THEN "false" ELSE "unbound"

\* ResolveDisableExllama with the two assignments exchanged.
ResolveDisableExllamaFollowsV2(disable_exllama, disable_exllamav2) ==
    IF disable_exllama = "None"
    THEN (IF disable_exllamav2 THEN TRUE ELSE FALSE)
    ELSE disable_exllama = "True"

\* Lines 121-125.
ResolveDisableExllama(disable_exllama, disable_exllamav2) ==
    IF disable_exllama = "None"
    THEN (IF disable_exllamav2 THEN FALSE ELSE TRUE)
    ELSE disable_exllama = "True"

\* CudaFamily with the marlin branch guarded by MARLIN_AVAILABLE.
CudaFamilyMarlinGuarded(c, a) ==
    LET disable_exllama ==
            ResolveDisableExllama(a.disable_exllama, a.disable_exllamav2)
    IN  IF a.bits = 4 /\ a.use_marlin /\ c.MARLIN_AVAILABLE
        THEN "qlinear_marlin"
        ELSE IF a.bits = 4 /\ ~a.disable_exllamav2 /\ c.EXLLAMAV2_KERNELS_AVAILABLE
        THEN "qlinear_exllamav2"
        ELSE IF a.bits = 4 /\ ~disable_exllama /\ c.EXLLAMA_KERNELS_AVAILABLE
        THEN "qlinear_exllama"
        ELSE IF ~a.desc_act \/ a.group_size = -1
        THEN "qlinear_cuda_old"
        ELSE "qlinear_cuda"

\* CudaFamily with line 132 reading "not desc_act and group_size == -1".
CudaFamilyLegacyNeedsBoth(c, a) ==
    LET disable_exllama ==
            ResolveDisableExllama(a.disable_exllama, a.disable_exllamav2)
    IN  IF a.bits = 4 /\ a.use_marlin
        THEN "qlinear_marlin"
        ELSE IF a.bits = 4 /\ ~a.disable_exllamav2 /\ c.EXLLAMAV2_KERNELS_AVAILABLE
        THEN "qlinear_exllamav2"
        ELSE IF a.bits = 4 /\ ~disable_exllama /\ c.EXLLAMA_KERNELS_AVAILABLE
        THEN "qlinear_exllama"
        ELSE IF ~a.desc_act /\ a.group_size = -1
        THEN "qlinear_cuda_old"
        ELSE "qlinear_cuda"

\* Lines 119-135: the default family.
CudaFamily(c, a) ==
    LET disable_exllama ==
            ResolveDisableExllama(a.disable_exllama, a.disable_exllamav2)
    IN  IF a.bits = 4 /\ a.use_marlin
        THEN "qlinear_marlin"
        ELSE IF a.bits = 4 /\ ~a.disable_exllamav2 /\ c.EXLLAMAV2_KERNELS_AVAILABLE
        THEN "qlinear_exllamav2"
        ELSE IF a.bits = 4 /\ ~disable_exllama /\ c.EXLLAMA_KERNELS_AVAILABLE
        THEN "qlinear_exllama"
        ELSE IF ~a.desc_act \/ a.group_size = -1
        THEN "qlinear_cuda_old"
        ELSE "qlinear_cuda"

\* IpexBranch with the availability check ahead of the assertion.
IpexBranchAvailabilityFirst(c, bits) ==
    IF ~c.IPEX_AVAILABLE
    THEN "ValueError_IPEX"
    ELSE IF bits # 4
    THEN "AssertionError"
    ELSE "qlinear_ipex"

\* Lines 112-118.
IpexBranch(c, bits) ==
    IF bits # 4
    THEN "AssertionError"
    ELSE IF ~c.IPEX_AVAILABLE
    THEN "ValueError_IPEX"
    ELSE "qlinear_ipex"

\* Lines 95-137, with the local use_ipex as line 94 left it.
SelectQuantLinear(c, a, ipex) ==
    IF a.use_qigen
    THEN (IF ~c.QIGEN_AVAILABLE THEN "ValueError_QIGen" ELSE "qlinear_qigen")
    ELSE IF a.use_triton \/ a.use_tritonv2
    THEN (IF a.use_tritonv2 THEN "qlinear_tritonv2" ELSE "qlinear_triton")
    ELSE IF ipex
    THEN IpexBranch(c, a.bits)
    ELSE CudaFamily(c, a)

\* NoCudaFallback with line 94 indented under "if not _warned".
NoCudaFallbackForcesOnce(cuda, w, ipex) ==
    IF ~cuda /\ ~ipex
    THEN IF w = "unbound"
         THEN [raised |-> TRUE, logged |-> FALSE, warned |-> w, use_ipex |-> ipex]
         ELSE [raised |-> FALSE, logged |-> (w = "false"), warned |-> "true",
               use_ipex |-> (w = "false")]
    ELSE [raised |-> FALSE, logged |-> FALSE, warned |-> w, use_ipex |-> ipex]

\* Lines 89-94: what the block does to the latch, the log and use_ipex.
\* Reading an unbound global raises NameError before anything is written.
NoCudaFallback(cuda, w, ipex) ==
    IF ~cuda /\ ~ipex
    THEN IF w = "unbound"
         THEN [raised |-> TRUE, logged |-> FALSE, warned |-> w, use_ipex |-> ipex]
         ELSE [raised |-> FALSE, logged |-> (w = "false"), warned |-> "true",
               use_ipex |-> TRUE]
    ELSE [raised |-> FALSE, logged |-> FALSE, warned |-> w, use_ipex |-> ipex]

\* dynamically_import_QuantLinear with the HPU import tried after line 94.
ImportHpuTriedLate(c, w, a) ==
    LET f == NoCudaFallback(a.cuda, w, a.use_ipex)
    IN  [result   |-> IF f.raised THEN "NameError"
                      ELSE IF a.hpu THEN "qlinear_hpu"
                      ELSE SelectQuantLinear(c, a, f.use_ipex),
         warned   |-> f.warned,
         logged   |-> f.logged,
         use_ipex |-> f.use_ipex]

\* Lines 69-137: the outcome and the effects of one call.
dynamically_import_QuantLinear(c, w, a) ==
    IF a.hpu
    THEN [result |-> "qlinear_hpu", warned |-> w, logged |-> FALSE,
          use_ipex |-> a.use_ipex]
    ELSE LET f == NoCudaFallback(a.cuda, w, a.use_ipex)
         IN  [result   |-> IF f.raised THEN "NameError"
                           ELSE SelectQuantLinear(c, a, f.use_ipex),
              warned   |-> f.warned,
              logged   |-> f.logged,
              use_ipex |-> f.use_ipex]

----------------------------------------------------------------------------
(* Sequential callers. *)

Threads == 1 .. NumThreads

\* logger.warning adds one line to the log.
Bump(n) == IF n < MaxLog THEN n + 1 ELSE n

Init ==
    /\ caps \in Caps
    /\ _warned = InitialWarned(caps)
    /\ nlog = 0
    /\ pc = "idle"
    /\ inp = NoInput
    /\ use_ipex = FALSE
    /\ logged = FALSE
    /\ result = NoResult
    /\ tpc = [t \in Threads |-> "off"]
    /\ tinp = [t \in Threads |-> NoInput]
    /\ tipex = [t \in Threads |-> FALSE]
    /\ tresult = [t \in Threads |-> NoResult]

\* One whole call.
Call(a) ==
    /\ pc = "idle"
    /\ LET r == dynamically_import_QuantLinear(caps, _warned, a)
       IN  /\ result' = r.result
           /\ _warned' = r.warned
           /\ logged' = r.logged
           /\ nlog' = IF r.logged THEN Bump(nlog) ELSE nlog
           /\ use_ipex' = r.use_ipex
    /\ inp' = a
    /\ pc' = "returned"
    /\ UNCHANGED <<caps, thrvars>>

\* The call is over: its arguments and locals are gone, the globals stay.
Exit ==
    /\ pc = "returned"
    /\ pc' = "idle"
    /\ inp' = NoInput
    /\ use_ipex' = FALSE
    /\ logged' = FALSE
    /\ result' = NoResult
    /\ UNCHANGED <<caps, _warned, nlog, thrvars>>

Next ==
    \/ (pc = "idle" /\ \E a \in Inputs : Call(a))
    \/ Exit

Spec == Init /\ [][Next]_vars

----------------------------------------------------------------------------
(* Concurrent callers: the function cut where another thread can run       *)
(* between two accesses of the global _warned.                             *)

\* The inputs the threads call with: the defaults, 4 bits, and every
\* combination of HPU, GPU and use_ipex.
ConcInputs ==
    {a \in Inputs :
        /\ DefaultPreference([a EXCEPT !.use_ipex = FALSE])
        /\ ~a.use_triton
        /\ ~a.desc_act
        /\ a.group_size = -1
        /\ a.bits = 4}

\* The processes the threads run in: only the Intel extension may be there.
ConcCaps ==
    {c \in Caps :
        /\ ~c.TRITON_AVAILABLE
        /\ ~c.AUTOGPTQ_CUDA_AVAILABLE
        /\ ~c.EXLLAMA_KERNELS_AVAILABLE
        /\ ~c.EXLLAMAV2_KERNELS_AVAILABLE
        /\ ~c.QIGEN_AVAILABLE
        /\ ~c.MARLIN_AVAILABLE}

InitConc ==
    /\ caps \in ConcCaps
    /\ _warned = InitialWarned(caps)
    /\ nlog = 0
    /\ pc = "idle"
    /\ inp = NoInput
    /\ use_ipex = FALSE
    /\ logged = FALSE
    /\ result = NoResult
    /\ tpc = [t \in Threads |-> "ready"]
    /\ tinp = [t \in Threads |-> NoInput]
    /\ tipex = [t \in Threads |-> FALSE]
    /\ tresult = [t \in Threads |-> NoResult]

\* Lines 69-89: the arguments are bound, the HPU import is tried and the
\* condition of line 89 is evaluated.
Begin(t, a) ==
    /\ tpc[t] = "ready"
    /\ tinp' = [tinp EXCEPT ![t] = a]
    /\ tipex' = [tipex EXCEPT ![t] = a.use_ipex]
    /\ IF a.hpu
       THEN /\ tpc' = [tpc EXCEPT ![t] = "done"]
            /\ tresult' = [tresult EXCEPT ![t] = "qlinear_hpu"]
       ELSE /\ tpc' = [tpc EXCEPT ![t] =
                          IF ~a.cuda /\ ~a.use_ipex THEN "test" ELSE "select"]
            /\ UNCHANGED tresult
    /\ UNCHANGED <<caps, _warned, nlog, seqvars>>

\* Test as an atomic test-and-set of the latch.
TestAndSet(t) ==
    /\ tpc[t] = "test"
    /\ IF _warned = "unbound"
       THEN /\ tpc' = [tpc EXCEPT ![t] = "done"]
            /\ tresult' = [tresult EXCEPT ![t] = "NameError"]
            /\ UNCHANGED <<tipex, _warned>>
       ELSE IF _warned = "true"
       THEN /\ tpc' = [tpc EXCEPT ![t] = "select"]
            /\ tipex' = [tipex EXCEPT ![t] = TRUE]
            /\ UNCHANGED <<tresult, _warned>>
       ELSE /\ tpc' = [tpc EXCEPT ![t] = "log"]
            /\ _warned' = "true"
            /\ UNCHANGED <<tipex, tresult>>
    /\ UNCHANGED <<caps, nlog, tinp, seqvars>>

\* Line 91: the read of _warned (and, when it is set, line 94).
Test(t) ==
    /\ tpc[t] = "test"
    /\ IF _warned = "unbound"
       THEN /\ tpc' = [tpc EXCEPT ![t] = "done"]
            /\ tresult' = [tresult EXCEPT ![t] = "NameError"]
            /\ UNCHANGED tipex
       ELSE IF _warned = "true"
       THEN /\ tpc' = [tpc EXCEPT ![t] = "select"]
            /\ tipex' = [tipex EXCEPT ![t] = TRUE]
            /\ UNCHANGED tresult
       ELSE /\ tpc' = [tpc EXCEPT ![t] = "log"]
            /\ UNCHANGED <<tipex, tresult>>
    /\ UNCHANGED <<caps, _warned, nlog, tinp, seqvars>>

\* Line 92: logger.warning.
Log(t) ==
    /\ tpc[t] = "log"
    /\ nlog' = Bump(nlog)
    /\ tpc' = [tpc EXCEPT ![t] = "set"]
    /\ UNCHANGED <<caps, _warned, tinp, tipex, tresult, seqvars>>

\* Line 93: the write of _warned (and line 94).
Set(t) ==
    /\ tpc[t] = "set"
    /\ _warned' = "true"
    /\ tipex' = [tipex EXCEPT ![t] = TRUE]
    /\ tpc' = [tpc EXCEPT ![t] = "select"]
    /\ UNCHANGED <<caps, nlog, tinp, tresult, seqvars>>

\* Lines 95-137.
Select(t) ==
    /\ tpc[t] = "select"
    /\ tresult' = [tresult EXCEPT ![t] = SelectQuantLinear(caps, tinp[t], tipex[t])]
    /\ tpc' = [tpc EXCEPT ![t] = "done"]
    /\ UNCHANGED <<caps, _warned, nlog, tinp, tipex, seqvars>>

NextConc ==
    \E t \in Threads :
        \/ (tpc[t] = "ready" /\ \E a \in ConcInputs : Begin(t, a))
        \/ Test(t)
        \/ Log(t)
        \/ Set(t)
        \/ Select(t)

SpecConc == InitConc /\ [][NextConc]_vars

----------------------------------------------------------------------------
(* The properties. *)

TypeOK ==
    /\ caps \in Caps
    /\ _warned \in {"unbound", "false", "true"}
    /\ nlog \in 0 .. MaxLog
    /\ pc \in {"idle", "returned"}
    /\ inp \in Inputs
    /\ use_ipex \in BOOLEAN
    /\ logged \in BOOLEAN
    /\ result \in Handles \cup Errors \cup {NoResult}
    /\ tpc \in [Threads -> {"off", "ready", "test", "log", "set", "select", "done"}]
    /\ tinp \in [Threads -> Inputs]
    /\ tipex \in [Threads -> BOOLEAN]
    /\ tresult \in [Threads -> Handles \cup Errors \cup {NoResult}]

\* A call has just returned or raised, and HPU was not importable.
ReturnedNoHpu == pc = "returned" /\ ~inp.hpu

\* Every capability flag is false.
NoCapability(c) ==
    /\ ~c.TRITON_AVAILABLE
    /\ ~c.AUTOGPTQ_CUDA_AVAILABLE
    /\ ~c.EXLLAMA_KERNELS_AVAILABLE
    /\ ~c.EXLLAMAV2_KERNELS_AVAILABLE
    /\ ~c.QIGEN_AVAILABLE
    /\ ~c.MARLIN_AVAILABLE
    /\ ~c.IPEX_AVAILABLE

\* All preference flags at their defaults: all false, disable_exllama unset.
AllDefault(a) == DefaultPreference(a) /\ ~a.use_triton

\* C1: a call made while the HPU runtime is importable returns the hpu
\* backend whatever the flags, the GPU, the config and the preferences are,
\* raises nothing, and leaves the latch and the log as they were.
C1_HpuShortCircuits ==
    [][(pc = "idle" /\ pc' = "returned" /\ inp'.hpu)
          => /\ result' = "qlinear_hpu"
             /\ _warned' = _warned
             /\ nlog' = nlog
             /\ ~logged']_vars

\* C1, its case: HPU importable on a call that would otherwise have read the
\* latch (no GPU, use_ipex not requested) and asked for an absent qigen.
C1_Witness ==
    /\ pc = "returned"
    /\ inp.hpu /\ ~inp.cuda /\ ~inp.use_ipex
    /\ inp.use_qigen /\ ~caps.QIGEN_AVAILABLE
    /\ result = "qlinear_hpu"

\* C2: with every extension absent and HPU not importable, a call with the
\* default preference flags returns a backend handle and raises nothing,
\* for every config, with or without a GPU runtime.
C2_AllAbsentStillReturns ==
    (ReturnedNoHpu /\ NoCapability(caps) /\ AllDefault(inp))
        => result \in Handles

\* C3: with HPU not importable, a call that requests a backend whose
\* capability flag is false (qigen, triton or tritonv2, ipex, marlin) fails
\* with an error and returns no handle.
C3_UnavailableRequestFails ==
    (/\ ReturnedNoHpu
     /\ \/ inp.use_qigen /\ ~caps.QIGEN_AVAILABLE
        \/ (inp.use_triton \/ inp.use_tritonv2) /\ ~caps.TRITON_AVAILABLE
        \/ inp.use_ipex /\ ~caps.IPEX_AVAILABLE
        \/ inp.use_marlin /\ ~caps.MARLIN_AVAILABLE)
        => result \in Errors

\* C4: the outcome of a call is a function of its inputs and the capability
\* flags alone: after any sequence of calls, with the latch as they left it,
\* a call ends as the first call of a fresh process with the same inputs
\* does, so any two calls with the same inputs end alike.
C4_OutcomeIgnoresLatchAndHistory ==
    pc = "returned"
        => result =
             dynamically_import_QuantLinear(caps, InitialWarned(caps), inp).result

\* C4, its case: a later call of a sequence, which found the latch already
\* set by an earlier one and had use_ipex forced without logging.
C4_Witness ==
    /\ ReturnedNoHpu
    /\ ~inp.cuda /\ ~inp.use_ipex
    /\ _warned = "true" /\ ~logged /\ nlog = 1
    /\ use_ipex
    /\ result = "qlinear_ipex"

\* C5 as stated: with HPU not importable, use_ipex=true and bits # 4 end in
\* the assertion error, whatever the other preference flags and the
\* capability flags are.
C5_IpexNeedsFourBits ==
    (ReturnedNoHpu /\ inp.use_ipex /\ inp.bits # 4)
        => result = "AssertionError"

\* C5 as amended: with HPU not importable, use_ipex=true and bits # 4 end in
\* the assertion error whenever none of use_qigen, use_triton and
\* use_tritonv2 is set, whatever the remaining preference flags and the
\* capability flags are, the Intel extension being absent included.
C5_IpexNeedsFourBitsUnlessOutranked ==
    (/\ ReturnedNoHpu
     /\ inp.use_ipex /\ inp.bits # 4
     /\ ~inp.use_qigen /\ ~inp.use_triton /\ ~inp.use_tritonv2)
        => result = "AssertionError"

\* C5, its case: use_ipex with 8 bits and no Intel extension.
C5_Witness ==
    /\ ReturnedNoHpu
    /\ inp.use_ipex /\ inp.bits = 8
    /\ ~inp.use_qigen /\ ~inp.use_triton /\ ~inp.use_tritonv2
    /\ ~caps.IPEX_AVAILABLE
    /\ result = "AssertionError"

\* use_marlin alone: every other preference flag at its default.
OnlyMarlin(a) ==
    /\ a.use_marlin
    /\ AllDefault([a EXCEPT !.use_marlin = FALSE])

\* C6 as stated: with HPU not importable, use_marlin=true with bits=4 and
\* the other preference flags at their defaults returns marlin, whatever
\* the capability flags, group_size, desc_act and the GPU availability are.
C6_MarlinWins ==
    (ReturnedNoHpu /\ OnlyMarlin(inp) /\ inp.bits = 4)
        => result = "qlinear_marlin"

\* C6 as amended: the same, when a GPU runtime is present.
C6_MarlinWinsWithCuda ==
    (ReturnedNoHpu /\ inp.cuda /\ OnlyMarlin(inp) /\ inp.bits = 4)
        => result = "qlinear_marlin"

\* C6, its case: marlin requested while exllama-v2 is available and the
\* marlin extension is not.
C6_Witness ==
    /\ ReturnedNoHpu /\ inp.cuda
    /\ OnlyMarlin(inp) /\ inp.bits = 4
    /\ caps.EXLLAMAV2_KERNELS_AVAILABLE /\ ~caps.MARLIN_AVAILABLE
    /\ result = "qlinear_marlin"

\* What C7 says a call with default preferences returns.
DefaultChoice(c, a) ==
    IF a.bits = 4 /\ c.EXLLAMAV2_KERNELS_AVAILABLE
    THEN "qlinear_exllamav2"
    ELSE IF ~a.desc_act \/ a.group_size = -1
    THEN "qlinear_cuda_old"
    ELSE "qlinear_cuda"

\* C7 as stated: with HPU not importable and every preference flag at its
\* default, the call returns exllama-v2 when bits=4 and exllama-v2 is
\* available, and otherwise cuda-legacy when desc_act is false or
\* group_size is -1, and cuda-generic when neither.
C7_DefaultPreference ==
    (ReturnedNoHpu /\ AllDefault(inp))
        => result = DefaultChoice(caps, inp)

\* C7 as amended: the same, when a GPU runtime is present.
C7_DefaultPreferenceWithCuda ==
    (ReturnedNoHpu /\ inp.cuda /\ AllDefault(inp))
        => result = DefaultChoice(caps, inp)

\* C7, its case: defaults, 4 bits, group_size 128 with desc_act, exllama-v2
\* available.
C7_Witness ==
    /\ ReturnedNoHpu /\ inp.cuda /\ AllDefault(inp)
    /\ inp.bits = 4 /\ inp.group_size = 128 /\ inp.desc_act
    /\ caps.EXLLAMAV2_KERNELS_AVAILABLE
    /\ result = "qlinear_exllamav2"

\* The default CUDA family with disable_exllama left unset.
CudaFamilyUnset ==
    /\ ReturnedNoHpu /\ inp.cuda
    /\ ~inp.use_qigen /\ ~inp.use_triton /\ ~inp.use_tritonv2
    /\ ~inp.use_ipex /\ ~inp.use_marlin
    /\ inp.disable_exllama = "None"

\* C8: in the default CUDA family with disable_exllama unset, it is taken
\* as the negation of disable_exllamav2: with bits=4 and exllama-v1
\* available, disable_exllamav2=true gives exllama-v1 (never cuda-legacy
\* or cuda-generic), and disable_exllamav2=false never gives exllama-v1.
C8_DisableExllamaDerived ==
    CudaFamilyUnset
        => /\ (inp.disable_exllamav2 /\ inp.bits = 4
                   /\ caps.EXLLAMA_KERNELS_AVAILABLE)
                 => result = "qlinear_exllama"
           /\ ~inp.disable_exllamav2 => result # "qlinear_exllama"

\* C8, its case: exllama-v2 disabled with both exllama kernels available.
C8_Witness ==
    /\ CudaFamilyUnset
    /\ inp.disable_exllamav2 /\ inp.bits = 4
    /\ caps.EXLLAMA_KERNELS_AVAILABLE /\ caps.EXLLAMAV2_KERNELS_AVAILABLE
    /\ result = "qlinear_exllama"

\* C9: in a sequence of calls the warning is logged at most once; a call
\* that finds HPU absent, no GPU and use_ipex not requested leaves the latch
\* set and use_ipex forced, the first such call having logged the warning
\* and the later ones not.
C9_WarnedOnceThenLatched ==
    /\ nlog <= 1
    /\ (ReturnedNoHpu /\ ~inp.cuda /\ ~inp.use_ipex)
          => /\ _warned = "true"
             /\ nlog = 1
             /\ use_ipex

\* C10: the latch is written by line 93 alone, a step of its own after the
\* read of line 91 and the log of line 92: it is set only once some thread
\* is past line 93, so a thread standing between its read and its write
\* keeps no other thread from reading the latch as false.
C10_LatchSetOnlyByLine93 ==
    _warned = "true"
        => \E t \in Threads :
              /\ tpc[t] \in {"select", "done"}
              /\ ~tinp[t].hpu /\ ~tinp[t].cuda /\ ~tinp[t].use_ipex

\* C10, its case: two threads have both read the latch as false and both
\* logged the warning, and neither has set the latch yet.
C10_Witness ==
    /\ \E t, u \in Threads :
          /\ t # u
          /\ tpc[t] = "set" /\ tpc[u] = "set"
          /\ ~tinp[t].hpu /\ ~tinp[t].cuda /\ ~tinp[t].use_ipex
          /\ ~tinp[u].hpu /\ ~tinp[u].cuda /\ ~tinp[u].use_ipex
    /\ _warned = "false"
    /\ nlog >= 2

====
